---- MODULE Spec2Model ----
(***************************************************************************)
(* Model of the Noir download tracker (scripts/nargo_download_tracker.py)  *)
(* and of its report stage (scripts/visualize_downloads.py).               *)
(*                                                                         *)
(* Strings are sequences of one-character strings, so that prefix tests,   *)
(* concatenation, lexicographic comparison and parsing are computed as     *)
(* Python computes them.  A Python dict is a sequence of [k, v] entries in *)
(* insertion order.  A file is a record with an "exists" flag.             *)
(***************************************************************************)
EXTENDS Integers, Sequences, FiniteSets, TLC

VARIABLES
    now,        \* the calendar day of the wall clock (an index, see Today)
    runs,       \* number of invocations of run() so far
    dl,         \* the server's current download count of asset a_b of v1.0.0
    csvFile,    \* download_history.csv
    totalsFile, \* daily_totals.csv
    jsonFile,   \* download_history.json
    last,       \* what the latest invocation of run() did
    prior,      \* what the latest completed invocation before it did
    before,     \* the three files as they were when the latest run() started
    f,          \* the frame of fetch_releases (stepwise specification)
    vin,        \* report stage: the version strings handed to parse_semver
    vout        \* report stage: what the report functions computed

vars == <<now, runs, dl, csvFile, totalsFile, jsonFile, last, prior, before, f, vin, vout>>

(***************************************************************************)
(* Bounds of the model.                                                    *)
(***************************************************************************)
MaxRuns == 3
MaxDays == 2
MaxCount == 2

(***************************************************************************)
(* Strings.                                                                *)
(***************************************************************************)
\* Code points of the characters the model uses (Python compares str by code point).
Code ==
    ("\n" :> 10) @@ ("-" :> 45) @@ ("." :> 46) @@
    ("0" :> 48) @@ ("1" :> 49) @@ ("2" :> 50) @@ ("3" :> 51) @@ ("4" :> 52) @@
    ("5" :> 53) @@ ("6" :> 54) @@ ("7" :> 55) @@ ("8" :> 56) @@ ("9" :> 57) @@
    ("B" :> 66) @@ ("_" :> 95) @@ ("a" :> 97) @@ ("b" :> 98) @@ ("c" :> 99) @@
    ("e" :> 101) @@ ("r" :> 114) @@ ("t" :> 116) @@ ("v" :> 118) @@ ("x" :> 120)

Min(a, b) == IF a < b THEN a ELSE b

\* Python's s < t on str.
StrLess(s, t) ==
    \E i \in 1..(Min(Len(s), Len(t)) + 1) :
        /\ \A j \in 1..(i - 1) : s[j] = t[j]
        /\ \/ i > Len(s) /\ i <= Len(t)
           \/ i <= Len(s) /\ i <= Len(t) /\ Code[s[i]] < Code[t[i]]

\* Python's s.startswith(p).
StartsWith(s, p) == Len(s) >= Len(p) /\ SubSeq(s, 1, Len(p)) = p

Digits == <<"0", "1", "2", "3", "4", "5", "6", "7", "8", "9">>
DigitChar(n) == Digits[n + 1]

\* "%02d" and "%04d" of strftime.
Pad2(n) == <<DigitChar(n \div 10), DigitChar(n % 10)>>
Pad4(n) == <<DigitChar(n \div 1000), DigitChar((n \div 100) % 10),
             DigitChar((n \div 10) % 10), DigitChar(n % 10)>>

\* The calendar date of day i of the model's clock: 2024-12-31, 2025-01-01, ...
Today(i) == IF i = 1 THEN [y |-> 2024, m |-> 12, d |-> 31]
                     ELSE [y |-> 2025, m |-> 1, d |-> i - 1]

\* datetime.now().strftime("%Y-%m-%d")
DateStr(i) == Pad4(Today(i).y) \o <<"-">> \o Pad2(Today(i).m) \o <<"-">> \o Pad2(Today(i).d)

(***************************************************************************)
(* Python dicts: sequences of entries, in insertion order.                 *)
(***************************************************************************)
DictKeys(d) == [i \in 1..Len(d) |-> d[i].k]
DictHas(d, key) == \E i \in 1..Len(d) : d[i].k = key
DictGet(d, key) == d[CHOOSE i \in 1..Len(d) : d[i].k = key].v
\* d[key] = val: replaces in place, or appends.
DictSet(d, key, val) ==
    IF DictHas(d, key)
    THEN [i \in 1..Len(d) |-> IF d[i].k = key THEN [k |-> key, v |-> val] ELSE d[i]]
    ELSE Append(d, [k |-> key, v |-> val])

RECURSIVE InsertStr(_, _)
InsertStr(x, sorted) ==
    IF sorted = <<>> THEN <<x>>
    ELSE IF StrLess(x, Head(sorted)) THEN <<x>> \o sorted
    ELSE <<Head(sorted)>> \o InsertStr(x, Tail(sorted))

\* sorted(list of str): a stable sort, ascending.
RECURSIVE SortedStr(_)
SortedStr(s) == IF s = <<>> THEN <<>> ELSE InsertStr(s[Len(s)], SortedStr(SubSeq(s, 1, Len(s) - 1)))

(***************************************************************************)
(* The releases endpoint: what the server holds and how it answers.        *)
(***************************************************************************)
TagV1 == <<"v", "1", ".", "0", ".", "0">>
TagV1a == TagV1 \o <<"_", "a">>
TagOld == <<"v", "0", ".", "9", ".", "0">>
TagRc == TagV1 \o <<"-", "r", "c">>

Asset(name, count) ==
    [name |-> name, download_count |-> count, size |-> 1, browser_download_url |-> "url"]

\* The server's releases.  v1.0.0 has asset a_b, v1.0.0_a has asset b,
\* v1.0.0-rc has no asset, v0.9.0 is outside the tracked version line.
ReleaseA(c) == [tag_name |-> TagV1, assets |-> <<Asset(<<"a", "_", "b">>, c)>>]
ReleaseB == [tag_name |-> TagV1a, assets |-> <<Asset(<<"b">>, MaxCount)>>]
ReleaseRc == [tag_name |-> TagRc, assets |-> <<>>]
ReleaseOld == [tag_name |-> TagOld, assets |-> <<Asset(<<"b">>, 1)>>]

Ok(body) == [status_code |-> 200, body |-> body]
Failure(code) == [status_code |-> code, body |-> <<>>]
\* 422: the result window is exhausted; 404 and 500: other failures.
ErrorCodes == {404, 500}

\* The pages the server holds, newest release first.
ServerPages(c) == <<Ok(<<ReleaseA(c)>>), Ok(<<ReleaseRc, ReleaseB, ReleaseOld>>)>>

(***************************************************************************)
(* NoirDownloadTracker.fetch_releases                                      *)
(***************************************************************************)
max_pages == 10

\* response.raise_for_status(): raises on 4xx and 5xx.
RaisesForStatus(resp) == resp.status_code >= 400 /\ resp.status_code < 600

\* The frame at the call: requested and received record the requests made
\* and the responses got.
FetchStart ==
    [page |-> 1, releases |-> <<>>, status |-> "loop", stop |-> "none",
     requested |-> <<>>, received |-> <<>>]

\* A loop that tests the page count one late.
LoopTest_OffByOne(page) == page <= max_pages + 1

\* The condition of the while loop.
LoopTest(page) == page <= max_pages

\* The status codes that mean the result window is exhausted.
IsWindowLimit(resp) == resp.status_code = 422

\* One iteration of the while loop, the request answered by resp, and the
\* loop test that follows it.
FetchStep(fr, resp) ==
    LET asked == [fr EXCEPT !.requested = Append(@, fr.page),
                            !.received = Append(@, resp)]
    IN  IF IsWindowLimit(resp)
        THEN [asked EXCEPT !.status = "returned", !.stop = "limit"]
        ELSE IF RaisesForStatus(resp)
        THEN [asked EXCEPT !.status = "raised", !.stop = "error"]
        ELSE IF resp.body = <<>>
        THEN [asked EXCEPT !.status = "returned", !.stop = "empty"]
        ELSE IF LoopTest(fr.page + 1)
        THEN [asked EXCEPT !.releases = @ \o resp.body, !.page = @ + 1]
        ELSE [asked EXCEPT !.releases = @ \o resp.body, !.page = @ + 1,
                           !.status = "returned", !.stop = "ceiling"]

\* The whole call against a server that answers with script, in order.
RECURSIVE FetchRun(_, _)
FetchRun(fr, script) ==
    IF fr.status # "loop" \/ script = <<>> THEN fr
    ELSE FetchRun(FetchStep(fr, Head(script)), Tail(script))

fetch_releases(script) == FetchRun(FetchStart, script)

(***************************************************************************)
(* filter_v1_releases, extract_download_stats                              *)
(***************************************************************************)
filter_v1_releases(releases) ==
    LET Keep(release) == StartsWith(release.tag_name, TagV1)
    IN  SelectSeq(releases, Keep)

RECURSIVE Flatten(_)
Flatten(ss) == IF ss = <<>> THEN <<>> ELSE Head(ss) \o Flatten(Tail(ss))

\* A release without assets contributes no row.
extract_download_stats(releases, timestamp) ==
    Flatten([i \in 1..Len(releases) |->
        [j \in 1..Len(releases[i].assets) |->
            [timestamp |-> timestamp,
             release_tag |-> releases[i].tag_name,
             asset_name |-> releases[i].assets[j].name,
             download_count |-> releases[i].assets[j].download_count,
             asset_size |-> releases[i].assets[j].size,
             asset_url |-> releases[i].assets[j].browser_download_url]]])

\* stat.keys(): the fields in insertion order; daily_change is assigned last.
BaseKeys == <<"timestamp", "release_tag", "asset_name", "download_count", "asset_size", "asset_url">>
Keys(stat) == IF "daily_change" \in DOMAIN stat THEN Append(BaseKeys, "daily_change") ELSE BaseKeys

RECURSIVE SumCounts(_)
SumCounts(stats) == IF stats = <<>> THEN 0 ELSE Head(stats).download_count + SumCounts(Tail(stats))

(***************************************************************************)
(* The persisters.  A line of a tabular log is a header (the column names) *)
(* or a data row; cols are the columns the writer emitted the values under.*)
(***************************************************************************)
NoCsv == [exists |-> FALSE, lines |-> <<>>]
NoJson == [exists |-> FALSE, data |-> <<>>]

HeaderLine(fieldnames) == [kind |-> "header", cols |-> fieldnames, vals |-> fieldnames]

\* csv.DictWriter.writerow: the values of the row's fields, in fieldnames order.
\* (A row with a key outside fieldnames would raise; a run's rows all carry
\* the keys of its first row.)
DataLine(row, fieldnames) ==
    [kind |-> "row", cols |-> fieldnames,
     vals |-> [i \in 1..Len(fieldnames) |-> row[fieldnames[i]]]]

\* Opening in mode 'a' creates the file, also when nothing is written.
save_to_csv(file, stats) ==
    LET file_exists == file.exists
    IN  IF stats # <<>>
        THEN LET fieldnames == Keys(stats[1])
                 header == IF ~file_exists THEN <<HeaderLine(fieldnames)>> ELSE <<>>
                 rows == [i \in 1..Len(stats) |-> DataLine(stats[i], fieldnames)]
             IN  [exists |-> TRUE, lines |-> file.lines \o header \o rows]
        ELSE [exists |-> TRUE, lines |-> file.lines]

TotalsKeys == <<"date", "timestamp", "total_downloads">>

save_daily_totals_csv(file, stats, day) ==
    LET file_exists == file.exists
        daily_total_record ==
            [date |-> DateStr(day), timestamp |-> day, total_downloads |-> SumCounts(stats)]
        header == IF ~file_exists THEN <<HeaderLine(TotalsKeys)>> ELSE <<>>
    IN  [exists |-> TRUE,
         lines |-> file.lines \o header \o <<DataLine(daily_total_record, TotalsKeys)>>]

\* The grouping loop of save_to_json: release tag -> {total_downloads, assets}.
RECURSIVE GroupByRelease(_, _)
GroupByRelease(releases, stats) ==
    IF stats = <<>> THEN releases
    ELSE LET stat == Head(stats)
             old == IF DictHas(releases, stat.release_tag)
                    THEN DictGet(releases, stat.release_tag)
                    ELSE [total_downloads |-> 0, assets |-> <<>>]
             new == [total_downloads |-> old.total_downloads + stat.download_count,
                     assets |-> Append(old.assets, stat)]
         IN  GroupByRelease(DictSet(releases, stat.release_tag, new), Tail(stats))

\* A writer that starts from an empty history.
LoadHistory_Forgets(file) == <<>>

\* history = {} unless the file exists.
LoadHistory(file) == IF file.exists THEN file.data ELSE <<>>

DayData(stats) ==
    [total_downloads |-> SumCounts(stats), releases |-> GroupByRelease(<<>>, stats)]

save_to_json(file, stats, day) ==
    [exists |-> TRUE, data |-> DictSet(LoadHistory(file), DateStr(day), DayData(stats))]

(***************************************************************************)
(* calculate_daily_changes                                                 *)
(***************************************************************************)
\* f"{stat['release_tag']}_{stat['asset_name']}"
StatKey(stat) == stat.release_tag \o <<"_">> \o stat.asset_name

\* The rows of a day's releases, in the order the loops visit them.
AllAssets(releases) == Flatten([i \in 1..Len(releases) |-> releases[i].v.assets])

RECURSIVE PreviousStats(_, _)
PreviousStats(acc, rows) ==
    IF rows = <<>> THEN acc
    ELSE PreviousStats(DictSet(acc, StatKey(Head(rows)), Head(rows).download_count), Tail(rows))

\* The date whose entry is the baseline: dates[-1] of the sorted keys.
PreviousDate(history) ==
    LET dates == SortedStr(DictKeys(history)) IN dates[Len(dates)]

calculate_daily_changes(current_stats, file) ==
    IF ~file.exists THEN current_stats
    ELSE LET history == file.data
         IN  IF Len(history) < 1 THEN current_stats
             ELSE LET previous_data == DictGet(history, PreviousDate(history))
                      previous_stats == PreviousStats(<<>>, AllAssets(previous_data.releases))
                  IN  [i \in 1..Len(current_stats) |->
                          LET stat == current_stats[i]
                              key == StatKey(stat)
                              previous_count == IF DictHas(previous_stats, key)
                                                THEN DictGet(previous_stats, key) ELSE 0
                          IN  ("daily_change" :> (stat.download_count - previous_count)) @@ stat]

(***************************************************************************)
(* NoirDownloadTracker.run                                                 *)
(***************************************************************************)
NoRun ==
    [outcome |-> "none", stop |-> "none", statuses |-> <<>>, collected |-> <<>>,
     stats |-> <<>>, day |-> 0, firstEver |-> FALSE]

Files == [csv |-> csvFile, totals |-> totalsFile, json |-> jsonFile]

\* A run that swallows the exception and goes on with what was fetched.
AbortsRun_Swallowed(fr) == FALSE

\* Whether an exception leaving fetch_releases ends run() before the persisters.
AbortsRun(fr) == fr.status = "raised"

\* run() against a server that answers with script.
Run(script) ==
    LET fr == fetch_releases(script)
        v1_releases == filter_v1_releases(fr.releases)
        stats == extract_download_stats(v1_releases, now)
        stats_with_changes == calculate_daily_changes(stats, jsonFile)
        report == [outcome |-> IF fr.status = "raised" THEN "raised" ELSE "ok",
                   stop |-> fr.stop,
                   statuses |-> [i \in 1..Len(fr.received) |-> fr.received[i].status_code],
                   collected |-> fr.releases,
                   stats |-> IF fr.status = "raised" THEN <<>> ELSE stats_with_changes,
                   day |-> now,
                   firstEver |-> ~jsonFile.exists]
    IN  /\ runs < MaxRuns
        /\ fr.status # "loop"
        /\ runs' = runs + 1
        /\ before' = Files
        /\ prior' = IF last.outcome = "ok" THEN last ELSE prior
        /\ last' = report
        /\ IF AbortsRun(fr)
           THEN UNCHANGED <<csvFile, totalsFile, jsonFile>>
           ELSE /\ csvFile' = save_to_csv(csvFile, stats_with_changes)
                /\ totalsFile' = save_daily_totals_csv(totalsFile, stats_with_changes, now)
                /\ jsonFile' = save_to_json(jsonFile, stats_with_changes, now)
        /\ UNCHANGED <<now, dl, f, vin, vout>>

\* What the server may answer during one run: all its pages and then an empty
\* page, or some of its pages and then a failure.  (The page ceiling is reached
\* in FetchSpec, where the loop runs step by step against every server.)
Scripts(c) ==
    {SubSeq(ServerPages(c), 1, k) \o <<Failure(code)>> :
        k \in 0..Len(ServerPages(c)), code \in {422} \cup ErrorCodes}
    \cup {ServerPages(c) \o <<Ok(<<>>)>>}

RunOnce == \E script \in Scripts(dl) : Run(script)

\* Midnight passes (the model stops with its last run).
Tick == /\ now < MaxDays /\ runs < MaxRuns
        /\ now' = now + 1
        /\ UNCHANGED <<runs, dl, csvFile, totalsFile, jsonFile, last, prior, before, f, vin, vout>>

\* Somebody downloads asset a_b of v1.0.0.
Download == /\ dl < MaxCount /\ runs < MaxRuns
            /\ dl' = dl + 1
            /\ UNCHANGED <<now, runs, csvFile, totalsFile, jsonFile, last, prior, before, f, vin, vout>>

\* The report stage before it has drawn anything.
NotRun == [raised |-> FALSE, releases |-> <<>>, downloads |-> <<>>]
NotDrawn == [release_tags |-> <<>>, asset_groups |-> <<>>]
ReportStart == [pc |-> "start", pie |-> NotDrawn, bars |-> NotRun]

Init ==
    /\ now = 1 /\ runs = 0 /\ dl = 1
    /\ csvFile = NoCsv /\ totalsFile = NoCsv /\ jsonFile = NoJson
    /\ last = NoRun /\ prior = NoRun
    /\ before = [csv |-> NoCsv, totals |-> NoCsv, json |-> NoJson]
    /\ f = FetchStart /\ vin = <<>> /\ vout = ReportStart

Next == RunOnce \/ Tick \/ Download

Spec == Init /\ [][Next]_vars

(***************************************************************************)
(* fetch_releases step by step, against a server that may answer each      *)
(* request with any response.                                              *)
(***************************************************************************)
FetchResponses ==
    {Ok(<<ReleaseA(1), ReleaseB>>), Ok(<<ReleaseOld>>), Ok(<<>>), Failure(422)}
    \cup {Failure(c) : c \in ErrorCodes}

FetchPage(resp) ==
    /\ f.status = "loop"
    /\ f' = FetchStep(f, resp)
    /\ UNCHANGED <<now, runs, dl, csvFile, totalsFile, jsonFile, last, prior, before, vin, vout>>

FetchNext == \E resp \in FetchResponses : FetchPage(resp)

\* The call is synchronous: a request that can be made is made.
FetchSpec == Init /\ [][FetchNext]_vars /\ WF_vars(FetchNext)

(***************************************************************************)
(* C1                                                                      *)
(***************************************************************************)
IsEmptyPage(resp) == resp.status_code = 200 /\ resp.body = <<>>
IsFullPage(resp) == resp.status_code = 200 /\ resp.body # <<>>

C1_Pagination ==
    LET n == Len(f.requested)
    IN  /\ f.requested = [i \in 1..n |-> i]
        /\ n <= 10
        /\ Len(f.received) = n
        /\ \A i \in 1..(n - 1) : IsFullPage(f.received[i]) /\ i < 10
        /\ f.status = "loop" => n < 10 /\ \A i \in 1..n : IsFullPage(f.received[i])
        /\ f.status = "returned" =>
              /\ n >= 1
              /\ \/ IsEmptyPage(f.received[n])
                 \/ f.received[n].status_code = 422
                 \/ n = 10 /\ IsFullPage(f.received[n])
              /\ f.releases =
                    Flatten([i \in 1..n |-> IF IsFullPage(f.received[i])
                                            THEN f.received[i].body ELSE <<>>])

\* C1: fetch_releases requests pages 1, 2, 3, ... in order without gaps, never a
\* page above 10 and none after an empty page, a 422 or page 10; what it returns
\* is the concatenation of the non-empty pages received; and it always terminates.
C1_FetchContract == [](C1_Pagination) /\ <>(f.status # "loop")

\* The loop returned after page 10, with ten non-empty pages collected.
C1_Witness ==
    /\ f.status = "returned" /\ f.stop = "ceiling"
    /\ Len(f.requested) = 10 /\ Len(f.releases) >= 10

(***************************************************************************)
(* C2                                                                      *)
(***************************************************************************)
IsErrorStatus(code) == code >= 400 /\ code # 422

\* The (release tag, asset name, download count) triples of stat rows.
TriplesOf(stats) ==
    {<<stats[i].release_tag, stats[i].asset_name, stats[i].download_count>> : i \in 1..Len(stats)}

\* The triples of the tracked releases among those fetched.
TriplesFetched(releases) ==
    UNION {{<<releases[i].tag_name, releases[i].assets[j].name,
              releases[i].assets[j].download_count>> : j \in 1..Len(releases[i].assets)} :
           i \in {i \in 1..Len(releases) : StartsWith(releases[i].tag_name, TagV1)}}

DataRows(file) == {i \in 1..Len(file.lines) : file.lines[i].kind = "row"}

\* C2: a page answered with a failure other than 422 is the last request of its
\* run and the run leaves the three files as they were; a run whose fetch ends
\* on a 422 completes and persists the releases collected before it.
C2_AbortOrPersist ==
    LET n == Len(last.statuses)
        today == DateStr(last.day)
    IN  last.outcome # "none" =>
        /\ (\E i \in 1..n : IsErrorStatus(last.statuses[i])) =>
              /\ last.outcome = "raised"
              /\ \A i \in 1..(n - 1) : ~IsErrorStatus(last.statuses[i])
              /\ Files = before
        /\ (n >= 1 /\ last.statuses[n] = 422) =>
              /\ last.outcome = "ok"
              /\ TriplesOf(last.stats) = TriplesFetched(last.collected)
              /\ csvFile.exists /\ totalsFile.exists /\ jsonFile.exists
              /\ Cardinality(DataRows(csvFile)) =
                    Cardinality(DataRows(before.csv)) + Len(last.stats)
              /\ Cardinality(DataRows(totalsFile)) = Cardinality(DataRows(before.totals)) + 1
              /\ DictHas(jsonFile.data, today)
              /\ TriplesOf(AllAssets(DictGet(jsonFile.data, today).releases)) =
                    TriplesFetched(last.collected)

\* A run failed on its second page, after a first page was fetched, with the
\* files of an earlier run on disk.
C2_Witness ==
    /\ last.outcome = "raised" /\ Len(last.statuses) = 2
    /\ last.collected # <<>> /\ before.json.exists /\ Len(before.csv.lines) > 0

(***************************************************************************)
(* C3                                                                      *)
(***************************************************************************)
TripleSeq(stats) ==
    [i \in 1..Len(stats) |->
        <<stats[i].release_tag, stats[i].asset_name, stats[i].download_count>>]

HasDelta(stat) == "daily_change" \in DOMAIN stat

\* C3: the rows of a first-ever run carry no daily_change; the rows of the second
\* run, when it fetched the same (tag, asset, count) triples as the first, all
\* carry daily_change = 0.
C3_FirstAbsentSecondZero ==
    /\ (last.outcome = "ok" /\ last.firstEver) =>
          \A i \in 1..Len(last.stats) : ~HasDelta(last.stats[i])
    /\ (last.outcome = "ok" /\ prior.outcome = "ok" /\ prior.firstEver
            /\ TripleSeq(last.stats) = TripleSeq(prior.stats)) =>
          \A i \in 1..Len(last.stats) :
              HasDelta(last.stats[i]) /\ last.stats[i].daily_change = 0

(***************************************************************************)
(* C4                                                                      *)
(***************************************************************************)
KeySet(d) == {d[i].k : i \in 1..Len(d)}
\* The history on disk when the latest run started (none: no date).
HistoryBefore == IF before.json.exists THEN before.json.data ELSE <<>>

\* C4: after a completed run on date d the entry of d holds the rows of that run
\* and nothing else, grouped by release tag with the totals of those rows; the
\* entry of every other date is as it was, and no date is lost.
C4_JsonUpsert ==
    last.outcome = "ok" =>
        LET d == DateStr(last.day)
            old == HistoryBefore
            new == jsonFile.data
            entry == DictGet(new, d)
        IN  /\ jsonFile.exists
            /\ KeySet(new) = KeySet(old) \cup {d}
            /\ Len(new) = Cardinality(KeySet(new))
            /\ \A k \in KeySet(old) \ {d} : DictGet(new, k) = DictGet(old, k)
            /\ entry.total_downloads = SumCounts(last.stats)
            /\ KeySet(entry.releases) = {last.stats[i].release_tag : i \in 1..Len(last.stats)}
            /\ Len(entry.releases) = Cardinality(KeySet(entry.releases))
            /\ \A r \in 1..Len(entry.releases) :
                  /\ entry.releases[r].v.assets =
                        SelectSeq(last.stats, LAMBDA st : st.release_tag = entry.releases[r].k)
                  /\ entry.releases[r].v.total_downloads = SumCounts(entry.releases[r].v.assets)

\* A same-day re-run replaced an entry that held a release the re-run did not
\* fetch, while the history also held an earlier date.
C4_Witness ==
    /\ last.outcome = "ok" /\ before.json.exists
    /\ DictHas(before.json.data, DateStr(last.day))
    /\ Len(before.json.data) >= 2
    /\ \E t \in KeySet(DictGet(before.json.data, DateStr(last.day)).releases) :
          t \notin {last.stats[i].release_tag : i \in 1..Len(last.stats)}
    /\ last.stats # <<>>

(***************************************************************************)
(* C5                                                                      *)
(***************************************************************************)
HeaderRows(file) == {i \in 1..Len(file.lines) : file.lines[i].kind = "header"}

\* C5: whenever the per-asset log holds a data row it holds exactly one header
\* row, and that row is its first line.
C5_HeaderOnce ==
    DataRows(csvFile) # {} =>
        /\ Cardinality(HeaderRows(csvFile)) = 1
        /\ csvFile.lines[1].kind = "header"

(***************************************************************************)
(* C8                                                                      *)
(***************************************************************************)
\* The dates of a history strictly earlier than date d.
EarlierDates(history, d) == {k \in KeySet(history) : StrLess(k, d)}
LatestOf(dates) == CHOOSE k \in dates : \A o \in dates : o = k \/ StrLess(o, k)

\* The count recorded for (tag, name) in a day's entry, 0 when there is none.
RecordedCount(day_data, tag, name) ==
    LET rows == AllAssets(day_data.releases)
        hits == {i \in 1..Len(rows) : rows[i].release_tag = tag /\ rows[i].asset_name = name}
    IN  IF hits = {} THEN 0 ELSE rows[CHOOSE i \in hits : TRUE].download_count

\* No two different (tag, name) pairs among the rows have the same lookup key.
KeysTellPairs(rows) ==
    \A i, j \in 1..Len(rows) :
        StatKey(rows[i]) = StatKey(rows[j]) =>
            rows[i].release_tag = rows[j].release_tag /\ rows[i].asset_name = rows[j].asset_name

\* C8: the daily_change of each row of a run on date d is its count minus the
\* count recorded in the entry of the latest date strictly earlier than d, also
\* when the history already holds an entry for d.  (Stated for the runs in which
\* no two rows, fetched or recorded, differ and share a lookup key: the case of C3.)
C8_BaselineIsEarlierDay ==
    LET d == DateStr(last.day)
        old == HistoryBefore
    IN  (last.outcome = "ok" /\ EarlierDates(old, d) # {}) =>
        LET base == DictGet(old, LatestOf(EarlierDates(old, d)))
        IN  KeysTellPairs(AllAssets(base.releases) \o last.stats
                          \o (IF DictHas(old, d) THEN AllAssets(DictGet(old, d).releases) ELSE <<>>)) =>
            \A i \in 1..Len(last.stats) :
                /\ HasDelta(last.stats[i])
                /\ last.stats[i].daily_change =
                      last.stats[i].download_count
                      - RecordedCount(base, last.stats[i].release_tag, last.stats[i].asset_name)

(***************************************************************************)
(* C10                                                                     *)
(***************************************************************************)
\* C10: every data row of the per-asset log has the columns of the log's header
\* row, as many and in the same order.
C10_RowsMatchHeader ==
    \A h \in HeaderRows(csvFile) : \A i \in DataRows(csvFile) :
        /\ csvFile.lines[i].cols = csvFile.lines[h].cols
        /\ Len(csvFile.lines[i].vals) = Len(csvFile.lines[h].vals)

(***************************************************************************)
(* The report stage: parse_semver.                                         *)
(*                                                                         *)
(* An element of a sort key is a number, float('inf') or a str; Python     *)
(* raises TypeError when it orders a str against a number.                 *)
(***************************************************************************)
Num(n) == [t |-> "num", n |-> n, s |-> <<>>]
Inf == [t |-> "inf", n |-> 0, s |-> <<>>]
Str(s) == [t |-> "str", n |-> 0, s |-> s]

\* a == b on key elements.
ElemEq(a, b) ==
    \/ a.t = "num" /\ b.t = "num" /\ a.n = b.n
    \/ a.t = "inf" /\ b.t = "inf"
    \/ a.t = "str" /\ b.t = "str" /\ a.s = b.s

Comparable(a, b) == (a.t = "str") = (b.t = "str")

\* a < b on comparable key elements.
ElemLess(a, b) ==
    IF a.t = "str" THEN StrLess(a.s, b.s)
    ELSE IF a.t = "inf" THEN FALSE
    ELSE b.t = "inf" \/ a.n < b.n

\* x < y on tuples: decided at the first position where they differ;
\* "lt", "ge", or "error" when that position cannot be ordered.
TupleLess(x, y) ==
    LET diff == {i \in 1..Min(Len(x), Len(y)) : ~ElemEq(x[i], y[i])}
    IN  IF diff = {} THEN (IF Len(x) < Len(y) THEN "lt" ELSE "ge")
        ELSE LET i == CHOOSE i \in diff : \A j \in diff : i <= j
             IN  IF ~Comparable(x[i], y[i]) THEN "error"
                 ELSE IF ElemLess(x[i], y[i]) THEN "lt" ELSE "ge"

\* version.lstrip('v')
RECURSIVE LStripV(_)
LStripV(s) == IF s # <<>> /\ Head(s) = "v" THEN LStripV(Tail(s)) ELSE s

IsDigit(c) == c \in {Digits[i] : i \in 1..10}
\* [a-zA-Z0-9-]
IsLabelChar(c) == IsDigit(c) \/ c = "-" \/ (Code[c] >= 65 /\ Code[c] <= 90) \/ (Code[c] >= 97 /\ Code[c] <= 122)

\* The length of the longest prefix of s made of digits (\d+ is greedy).
RECURSIVE LeadDigits(_)
LeadDigits(s) == IF s # <<>> /\ IsDigit(Head(s)) THEN 1 + LeadDigits(Tail(s)) ELSE 0
RECURSIVE LeadLabel(_)
LeadLabel(s) == IF s # <<>> /\ IsLabelChar(Head(s)) THEN 1 + LeadLabel(Tail(s)) ELSE 0

Drop(s, n) == SubSeq(s, n + 1, Len(s))
Take(s, n) == SubSeq(s, 1, n)

\* $ matches at the end of the string and before a final newline.
AtEnd(s) == s = <<>> \/ s = <<"\n">>

DigitVal(c) == CHOOSE n \in 0..9 : Digits[n + 1] = c
\* int(digits)
RECURSIVE ParseInt(_)
ParseInt(s) == IF s = <<>> THEN 0 ELSE ParseInt(Take(s, Len(s) - 1)) * 10 + DigitVal(s[Len(s)])

NoMatch == [ok |-> FALSE, g1 |-> <<>>, g2 |-> <<>>, g3 |-> <<>>, g4 |-> <<>>, g5 |-> <<>>]

\* The optional tail (?:-([a-zA-Z0-9-]+)(?:\.(\d+))?)?$ after the patch number.
MatchTail(m, rest) ==
    IF AtEnd(rest) THEN m
    ELSE IF Head(rest) # "-" THEN NoMatch
    ELSE LET l == LeadLabel(Tail(rest))
             after == Drop(Tail(rest), l)
             labelled == [m EXCEPT !.g4 = Take(Tail(rest), l)]
         IN  IF l = 0 THEN NoMatch
             ELSE IF AtEnd(after) THEN labelled
             ELSE IF Head(after) # "." THEN NoMatch
             ELSE LET d == LeadDigits(Tail(after))
                  IN  IF d >= 1 /\ AtEnd(Drop(Tail(after), d))
                      THEN [labelled EXCEPT !.g5 = Take(Tail(after), d)]
                      ELSE NoMatch

\* re.match(r'^(\d+)\.(\d+)\.(\d+)(?:-([a-zA-Z0-9-]+)(?:\.(\d+))?)?$', s):
\* an empty group stands for a group that did not take part in the match.
MatchSemver(s) ==
    LET n1 == LeadDigits(s)
        r1 == Drop(s, n1)
        n2 == LeadDigits(Tail(r1))
        r2 == Drop(Tail(r1), n2)
        n3 == LeadDigits(Tail(r2))
        r3 == Drop(Tail(r2), n3)
    IN  IF n1 = 0 \/ r1 = <<>> \/ Head(r1) # "." THEN NoMatch
        ELSE IF n2 = 0 \/ r2 = <<>> \/ Head(r2) # "." THEN NoMatch
        ELSE IF n3 = 0 THEN NoMatch
        ELSE MatchTail([ok |-> TRUE, g1 |-> Take(s, n1), g2 |-> Take(Tail(r1), n2),
                        g3 |-> Take(Tail(r2), n3), g4 |-> <<>>, g5 |-> <<>>], r3)

\* A key that keeps the prerelease number as text.
PrereleaseNum_AsText(g5) == Str(g5)

\* int(match.group(5)) if match.group(5) else 0
PrereleaseNum(g5) == IF g5 # <<>> THEN Num(ParseInt(g5)) ELSE Num(0)

\* A fallback that sorts first.
FallbackKey_First(version) == <<Num(0), Num(0), Num(0), Num(0), Str(version), Num(0)>>

\* (float('inf'), 0, 0, 0, version, 0)
FallbackKey(version) == <<Inf, Num(0), Num(0), Num(0), Str(version), Num(0)>>

parse_semver(tag) ==
    LET version == LStripV(tag)
        match == MatchSemver(version)
        prerelease_type == match.g4
        prerelease_priority == IF prerelease_type # <<>> THEN 0 ELSE 1
    IN  IF match.ok
        THEN <<Num(ParseInt(match.g1)), Num(ParseInt(match.g2)), Num(ParseInt(match.g3)),
               Num(prerelease_priority), Str(prerelease_type), PrereleaseNum(match.g5)>>
        ELSE FallbackKey(version)

(***************************************************************************)
(* sorted(): a stable sort that orders with < alone and lets a TypeError   *)
(* of a comparison through.                                                *)
(***************************************************************************)
\* Whether ordering the keys may raise: some two of them cannot be ordered.
MayRaise(keys) == \E i, j \in 1..Len(keys) : TupleLess(keys[i], keys[j]) = "error"

RECURSIVE InsertByKey(_, _)
InsertByKey(x, sorted) ==
    IF sorted = <<>> THEN <<x>>
    ELSE IF TupleLess(parse_semver(x), parse_semver(Head(sorted))) = "lt" THEN <<x>> \o sorted
    ELSE <<Head(sorted)>> \o InsertByKey(x, Tail(sorted))

\* sorted(tags, key=parse_semver)
RECURSIVE SortedBySemver(_)
SortedBySemver(s) ==
    IF s = <<>> THEN <<>> ELSE InsertByKey(s[Len(s)], SortedBySemver(Take(s, Len(s) - 1)))

Reverse(s) == [i \in 1..Len(s) |-> s[Len(s) + 1 - i]]

\* sorted(list of str, reverse=True): descending, equal elements in their order.
SortedStrDesc(s) == Reverse(SortedStr(Reverse(s)))

\* max(history.keys())
LatestDate(history) == LET dates == SortedStr(DictKeys(history)) IN dates[Len(dates)]

(***************************************************************************)
(* The report stage: the charts.                                           *)
(***************************************************************************)
AARCH64 == <<"a", "a", "r", "c", "h", "6", "4">>
X86_64 == <<"x", "8", "6", "_", "6", "4">>
LINUX == <<"l", "i", "n", "u", "x">>
DARWIN == <<"d", "a", "r", "w", "i", "n">>
MACOS == <<"m", "a", "c", "o", "s">>
WINDOWS == <<"w", "i", "n", "d", "o", "w", "s">>
EXE == <<".", "e", "x", "e">>

LowerChar(c) == IF c = "L" THEN "l" ELSE IF c = "B" THEN "b" ELSE c
\* s.lower()
Lower(s) == [i \in 1..Len(s) |-> LowerChar(s[i])]
\* sub in s
Contains(s, sub) == \E i \in 1..(Len(s) - Len(sub) + 1) : SubSeq(s, i, i + Len(sub) - 1) = sub

Architecture(asset_name) ==
    IF Contains(Lower(asset_name), AARCH64) THEN "ARM64"
    ELSE IF Contains(Lower(asset_name), X86_64) THEN "x86_64"
    ELSE "Unknown"

Platform(asset_name) ==
    IF Contains(Lower(asset_name), LINUX) THEN "Linux"
    ELSE IF Contains(Lower(asset_name), DARWIN) \/ Contains(Lower(asset_name), MACOS) THEN "macOS"
    ELSE IF Contains(Lower(asset_name), WINDOWS) \/ Contains(asset_name, EXE) THEN "Windows"
    ELSE "Other"

\* The number of releases the pie chart covers.
TopReleases == 5

\* sorted(latest_data['releases'].keys(), reverse=True)[:5]
RecentTags(tags) ==
    LET sorted == SortedStrDesc(tags) IN Take(sorted, Min(TopReleases, Len(sorted)))

RECURSIVE GroupByPlatform(_, _)
GroupByPlatform(asset_groups, rows) ==
    IF rows = <<>> THEN asset_groups
    ELSE LET platform_arch == <<Platform(Head(rows).asset_name), Architecture(Head(rows).asset_name)>>
             sofar == IF DictHas(asset_groups, platform_arch)
                      THEN DictGet(asset_groups, platform_arch) ELSE 0
         IN  GroupByPlatform(DictSet(asset_groups, platform_arch, sofar + Head(rows).download_count),
                             Tail(rows))

\* create_asset_breakdown: the release tags it covers and the size of each slice.
create_asset_breakdown(history) ==
    LET latest_data == DictGet(history, LatestDate(history))
        release_tags == RecentTags(DictKeys(latest_data.releases))
        rows == Flatten([i \in 1..Len(release_tags) |->
                            DictGet(latest_data.releases, release_tags[i]).assets])
    IN  [release_tags |-> release_tags, asset_groups |-> GroupByPlatform(<<>>, rows)]

\* create_release_breakdown: the bars, left to right, or the TypeError of the sort.
create_release_breakdown(history) ==
    LET latest_data == DictGet(history, LatestDate(history))
        tags == DictKeys(latest_data.releases)
        releases == SortedBySemver(tags)
    IN  IF MayRaise([i \in 1..Len(tags) |-> parse_semver(tags[i])])
        THEN [raised |-> TRUE, releases |-> <<>>, downloads |-> <<>>]
        ELSE [raised |-> FALSE, releases |-> releases,
              downloads |-> [i \in 1..Len(releases) |->
                                DictGet(latest_data.releases, releases[i]).total_downloads]]

(***************************************************************************)
(* The histories the report stage is run on.  A version is given by its    *)
(* parts and written out as vMAJOR.MINOR.PATCH[-LABEL[.NUM]] (num = -1: no *)
(* number, label = <<>>: a stable release), or given as raw text.          *)
(***************************************************************************)
RECURSIVE Dec(_)
Dec(n) == IF n < 10 THEN <<DigitChar(n)>> ELSE Dec(n \div 10) \o <<DigitChar(n % 10)>>

Semver(major, minor, patch, label, num) ==
    [kind |-> "semver", major |-> major, minor |-> minor, patch |-> patch,
     label |-> label, num |-> num, text |-> <<>>]
Raw(text) ==
    [kind |-> "raw", major |-> 0, minor |-> 0, patch |-> 0, label |-> <<>>, num |-> -1, text |-> text]

Fmt(v) ==
    IF v.kind = "raw" THEN v.text
    ELSE <<"v">> \o Dec(v.major) \o <<".">> \o Dec(v.minor) \o <<".">> \o Dec(v.patch)
         \o (IF v.label = <<>> THEN <<>>
             ELSE <<"-">> \o v.label \o (IF v.num < 0 THEN <<>> ELSE <<".">> \o Dec(v.num)))

BETA == <<"b", "e", "t", "a">>
RC == <<"r", "c">>

\* Versions that differ in every part, with one-digit and two-digit numbers.
PairVersions ==
    {Semver(a, b, c, <<>>, -1) : a \in {2, 10}, b \in {2, 10}, c \in {2, 10}}
    \cup {Semver(a, b, c, l, n) : a \in {2, 10}, b \in {2, 10}, c \in {2, 10},
                                   l \in {BETA, RC}, n \in {-1, 2, 10}}
    \cup {Raw(<<"c">>), Raw(<<"v", "b">>), Raw(<<"v", "v", "c">>),
          Raw(<<"v", "1", ".", "0">>), Raw(TagV1a)}

\* The releases of the v1.0.0 line, in the order the history lists them.
LineVersions ==
    <<Semver(1, 0, 0, <<>>, -1), Semver(1, 0, 0, BETA, 10), Semver(1, 0, 0, BETA, 2),
      Semver(1, 0, 0, BETA, 9), Semver(1, 0, 0, RC, 1), Semver(1, 0, 0, BETA, 11),
      Semver(1, 0, 0, BETA, 1)>>

SubSeqOf(s, keep) == SelectSeq([i \in 1..Len(s) |-> [i |-> i, x |-> s[i]]], LAMBDA e : e.i \in keep)

ReportInputs ==
    ({<<a, b>> : a \in PairVersions, b \in PairVersions} \ {<<a, a>> : a \in PairVersions})
    \cup {[i \in 1..Len(SubSeqOf(LineVersions, keep)) |-> SubSeqOf(LineVersions, keep)[i].x] :
            keep \in SUBSET (1..Len(LineVersions))}

AssetNames == <<X86_64 \o <<"-">> \o LINUX, AARCH64 \o <<"-">> \o DARWIN, <<"n", "o", "i", "r">> \o EXE>>

\* One row per release, as extract_download_stats builds them.
RowsFor(versions, day) ==
    extract_download_stats(
        [i \in 1..Len(versions) |->
            [tag_name |-> Fmt(versions[i]),
             assets |-> <<Asset(AssetNames[(i % Len(AssetNames)) + 1], i)>>]], day)

\* The history after a run on day 1 that saw v1.0.0 alone and a run on day 2
\* that saw the given versions.
HistoryOf(versions) ==
    save_to_json(save_to_json(NoJson, RowsFor(<<Semver(1, 0, 0, <<>>, -1)>>, 1), 1),
                 RowsFor(versions, 2), 2)

ReportInit ==
    /\ now = 1 /\ runs = 0 /\ dl = 1
    /\ csvFile = NoCsv /\ totalsFile = NoCsv
    /\ last = NoRun /\ prior = NoRun
    /\ before = [csv |-> NoCsv, totals |-> NoCsv, json |-> NoJson]
    /\ f = FetchStart
    /\ vin \in ReportInputs
    /\ jsonFile = HistoryOf(vin)
    /\ vout = ReportStart

\* The main block: the pie chart, then the bar chart.
CreateAssetBreakdown ==
    /\ vout.pc = "start" /\ jsonFile.data # <<>>
    /\ vout' = [vout EXCEPT !.pc = "pie", !.pie = create_asset_breakdown(jsonFile.data)]
    /\ UNCHANGED <<now, runs, dl, csvFile, totalsFile, jsonFile, last, prior, before, f, vin>>

CreateReleaseBreakdown ==
    /\ vout.pc = "pie"
    /\ vout' = [vout EXCEPT !.pc = "bars", !.bars = create_release_breakdown(jsonFile.data)]
    /\ UNCHANGED <<now, runs, dl, csvFile, totalsFile, jsonFile, last, prior, before, f, vin>>

ReportNext == CreateAssetBreakdown \/ CreateReleaseBreakdown

ReportSpec == ReportInit /\ [][ReportNext]_vars

(***************************************************************************)
(* C6                                                                      *)
(***************************************************************************)
NumberOf(v) == IF v.num < 0 THEN 0 ELSE v.num

\* The order of the claim on versions given by their parts: major, minor and
\* patch as numbers, a prerelease before the stable release, the label as text,
\* the prerelease number as a number (no number counts as 0).
VersionBefore(a, b) ==
    IF a.major # b.major THEN a.major < b.major
    ELSE IF a.minor # b.minor THEN a.minor < b.minor
    ELSE IF a.patch # b.patch THEN a.patch < b.patch
    ELSE IF (a.label = <<>>) # (b.label = <<>>) THEN a.label # <<>>
    ELSE IF a.label # b.label THEN StrLess(a.label, b.label)
    ELSE NumberOf(a) < NumberOf(b)

\* The version a tag of the history was written from.
VersionOf(tag) == vin[CHOOSE i \in 1..Len(vin) : Fmt(vin[i]) = tag]

AllSemver == \A i \in 1..Len(vin) : vin[i].kind = "semver"

\* C6: the bars of well-formed versions stand in the order of VersionBefore, so
\* that v1.0.0-beta.2 < v1.0.0-beta.10 < v1.0.0.
C6_SemverOrder ==
    (vout.pc = "bars" /\ AllSemver) =>
        LET releases == vout.bars.releases
        IN  /\ ~vout.bars.raised
            /\ Len(releases) = Len(vin)
            /\ {releases[i] : i \in 1..Len(releases)} = {Fmt(vin[i]) : i \in 1..Len(vin)}
            /\ \A i, j \in 1..Len(releases) :
                  i < j => ~VersionBefore(VersionOf(releases[j]), VersionOf(releases[i]))

\* The history listed v1.0.0, v1.0.0-beta.10, v1.0.0-beta.2 and the bars are
\* v1.0.0-beta.2, v1.0.0-beta.10, v1.0.0.
C6_Witness ==
    /\ vout.pc = "bars"
    /\ vin = <<Semver(1, 0, 0, <<>>, -1), Semver(1, 0, 0, BETA, 10), Semver(1, 0, 0, BETA, 2)>>
    /\ vout.bars.releases =
          <<TagV1 \o <<"-">> \o BETA \o <<".", "2">>,
            TagV1 \o <<"-">> \o BETA \o <<".", "1", "0">>,
            TagV1>>

(***************************************************************************)
(* C7                                                                      *)
(***************************************************************************)
IsRawTag(tag) == VersionOf(tag).kind = "raw"

\* The text of a tag after its leading v's.
RECURSIVE WithoutLeadingV(_)
WithoutLeadingV(s) ==
    IF Len(s) >= 1 /\ s[1] = "v" THEN WithoutLeadingV(SubSeq(s, 2, Len(s))) ELSE s

\* C7 as claimed: sorting a mix of parsable and unparsable tags never raises,
\* every unparsable tag comes after every parsable one, and the unparsable tags
\* are in the order of their literal text.
C7_UnparsableLastByLiteralText ==
    vout.pc = "bars" =>
        LET releases == vout.bars.releases
        IN  /\ ~vout.bars.raised
            /\ Len(releases) = Len(vin)
            /\ \A i, j \in 1..Len(releases) : i < j =>
                  /\ IsRawTag(releases[i]) => IsRawTag(releases[j])
                  /\ (IsRawTag(releases[i]) /\ IsRawTag(releases[j])) =>
                        ~StrLess(releases[j], releases[i])

\* Where the history lists a tag.
ListedAt(tag) == CHOOSE i \in 1..Len(vin) : Fmt(vin[i]) = tag

\* C7 as amended: the same, with the unparsable tags in the order of their text
\* after the leading v's, and in the order the history lists them when that
\* text is the same.
C7_UnparsableLastByStrippedText ==
    vout.pc = "bars" =>
        LET releases == vout.bars.releases
        IN  /\ ~vout.bars.raised
            /\ Len(releases) = Len(vin)
            /\ \A i, j \in 1..Len(releases) : i < j =>
                  /\ IsRawTag(releases[i]) => IsRawTag(releases[j])
                  /\ (IsRawTag(releases[i]) /\ IsRawTag(releases[j])) =>
                        /\ ~StrLess(WithoutLeadingV(releases[j]), WithoutLeadingV(releases[i]))
                        /\ WithoutLeadingV(releases[j]) = WithoutLeadingV(releases[i]) =>
                              ListedAt(releases[i]) < ListedAt(releases[j])

\* The history listed the unparsable tags c and vb, in that order, and the bars
\* are vb and then c.
C7_Witness ==
    /\ vout.pc = "bars" /\ ~vout.bars.raised
    /\ vin = <<Raw(<<"c">>), Raw(<<"v", "b">>)>>
    /\ vout.bars.releases = <<<<"v", "b">>, <<"c">>>>

(***************************************************************************)
(* C9                                                                      *)
(***************************************************************************)
\* The versions that fewer than five versions of the history come after.
FiveMostRecent ==
    {Fmt(vin[i]) : i \in {i \in 1..Len(vin) :
        Cardinality({j \in 1..Len(vin) : VersionBefore(vin[i], vin[j])}) < 5}}

====
